---- MODULE Spec2Model ----
(***************************************************************************)
(* Model of pkg/ebpf/netlink/consumer.go: the conntrack netlink Consumer,  *)
(* its single worker goroutine, the receive loop shared by Events() and    *)
(* DumpTable(), the throttle protocol and the buffer pool.                 *)
(*                                                                         *)
(* Threads: the worker goroutine started by initWorker (position wpc),     *)
(* the goroutines that call NewConsumer / Events / DumpTable / Stop, and   *)
(* the reader of the output channels, which receives Events and calls      *)
(* Done() on them.  A step of the worker runs from one point where another *)
(* goroutine can observe or influence it to the next.                      *)
(*                                                                         *)
(* Sampling rates are float64 in the source.  They are modelled in fixed   *)
(* point, in units of 10^-8, where 0.8^k is exact for k <= 8; the float64  *)
(* rounding error (about 10^-16) is far below the distance of any visited  *)
(* rate from the two values it is compared with (0.2 and 1.0).             *)
(***************************************************************************)
EXTENDS Integers, Sequences, FiniteSets, TLC

\* ---- bounds of the model ------------------------------------------------
\* The environment of the Consumer makes at most MaxEnv moves: a call of
\* Events(), DumpTable() or Stop(), a batch or an error returned by Receive,
\* a Done() on an Event that was already released.
MaxEnv == 4

\* ---- program constants --------------------------------------------------
outputBuffer == 100
fullRate == 100000000
minSamplingThreshold == 20000000
throttlingFactor == 8

Worker == "worker"
Caller == "caller"

\* ---- netlink messages ---------------------------------------------------
Msg(t, d) == [Type |-> t, Data |-> d]

DataMsg == Msg("Data", <<1>>)
DoneMsg == Msg("Done", <<0, 0, 0, 0>>)
ErrMsg == Msg("Error", <<255, 255, 255, 255>>)
AckMsg == Msg("Error", <<0, 0, 0, 0>>)
ShortMsg == Msg("Error", <<1, 0>>)

\* the batches a Receive may return
Batches ==
  { <<DataMsg>>,
    <<DataMsg, DoneMsg>>,
    <<DoneMsg, DataMsg>>,
    <<ErrMsg, DoneMsg>>,
    <<AckMsg>>,
    <<DataMsg, ShortMsg>> }

\* an error message: type Error with fewer than 4 payload bytes, or with a
\* code (its first 4 bytes) that is not zero
IsErrorMessage(m) ==
  /\ m.Type = "Error"
  /\ \/ Len(m.Data) < 4
     \/ \E k \in 1..4 : m.Data[k] # 0

ContainsError(b) == \E k \in 1..Len(b) : IsErrorMessage(b[k])

\* nlenc.Int32: a native-endian (little-endian) signed 32 bit integer
Int32(b) ==
  LET hi == IF b[4] >= 128 THEN b[4] - 256 ELSE b[4]
  IN  hi * 16777216 + b[3] * 65536 + b[2] * 256 + b[1]

NoError == [kind |-> "nil", errno |-> 0]

\* checkMessage with the Done type checked for a code as well
checkMessage_doneToo(m) ==
  IF m.Type \notin {"Error", "Done"} THEN NoError
  ELSE IF Len(m.Data) < 4 THEN [kind |-> "errShortErrorMessage", errno |-> 0]
  ELSE LET c == Int32(SubSeq(m.Data, 1, 4))
       IN  IF c # 0 THEN [kind |-> "errno", errno |-> (-1) * c] ELSE NoError

checkMessage(m) ==
  IF m.Type # "Error" THEN NoError
  ELSE IF Len(m.Data) < 4 THEN [kind |-> "errShortErrorMessage", errno |-> 0]
  ELSE LET c == Int32(SubSeq(m.Data, 1, 4))
       IN  IF c # 0 THEN [kind |-> "errno", errno |-> (-1) * c] ELSE NoError

\* the loop of lines 280-286: some message of the batch carries an error
HasErrorMessage_first(b) == Len(b) > 0 /\ checkMessage(b[1]) # NoError

HasErrorMessage(b) == \E k \in 1..Len(b) : checkMessage(b[k]) # NoError

socketError_default(e) ==
  IF e = "no buffer space" THEN "errENOBUF" ELSE "errEOF"

socketError(e) ==
  IF e = "closed file" THEN "errEOF"
  ELSE IF e = "no buffer space" THEN "errENOBUF"
  ELSE e

multiPartDoneOf(b) == Len(b) > 0 /\ b[Len(b)].Type = "Done"

StripDone_head(b) == IF multiPartDoneOf(b) THEN Tail(b) ELSE b

StripDone(b) == IF multiPartDoneOf(b) THEN SubSeq(b, 1, Len(b) - 1) ELSE b

\* lines 240-263: what receive() does on an error that socketError
\* classifies as errEOF or errENOBUF
OnFatal_throttleDump(kind, dump) == IF kind = "errEOF" THEN "ret" ELSE "throttle"

OnFatal(kind, dump) == IF kind = "errEOF" \/ dump THEN "ret" ELSE "throttle"

\* lines 257-262, 270-275: what receive() does with throttle()'s result
AfterThrottle_ignore(res) == IF res = "nil" THEN "rejoin" ELSE "recv"

AfterThrottle(res) == IF res = "nil" THEN "rejoin" ELSE "ret"

\* lines 128-139: what DumpTable's task does after Send and Validate
AfterSend_noReturn(ok) == "recv"

AfterSend(ok) == IF ok THEN "recv" ELSE "ret"

LoopFinished_inverted(dump, mpd) == ~dump /\ mpd

LoopFinished(dump, mpd) == dump /\ mpd

Throttled_subtract(r) == r - (10 - throttlingFactor) * (fullRate \div 10)

Throttled(r) == (r * throttlingFactor) \div 10

\* lines 266-268: the streaming loop consults the breaker, the dump loop
\* does not
Tripped_never(dump, open) == FALSE

Tripped(dump, open) == ~dump /\ open

\* lines 279-299: what the loop does with a batch that did not trip the
\* breaker: drop it, send its Event and go on, or send it and return
AfterBatch_doneFirst(dump, msgs) ==
  IF LoopFinished(dump, multiPartDoneOf(msgs)) THEN "last"
  ELSE IF HasErrorMessage(msgs) THEN "drop"
  ELSE "emit"

AfterBatch(dump, msgs) ==
  IF HasErrorMessage(msgs) THEN "drop"
  ELSE IF LoopFinished(dump, multiPartDoneOf(msgs)) THEN "last"
  ELSE "emit"

TooManyAttempts_zero(r) == r <= 0

TooManyAttempts(r) == r <= minSamplingThreshold

NeedsFilter_strict(r) == ~(r > fullRate)

NeedsFilter(r) == ~(r >= fullRate)

\* ---- the buffer pool ----------------------------------------------------
newBufferPool == [inUse |-> 0, free |-> <<>>]

\* sync.Pool.Get selects an arbitrary item of the pool and calls New when it
\* has none: the buffers Get may return.  (sync.Pool may also drop items or
\* ignore them; that only makes Get return more fresh buffers.)
GetChoices(p) ==
  IF \E b \in 1..Len(p.free) : p.free[b] > 0
  THEN {b \in 1..Len(p.free) : p.free[b] > 0}
  ELSE {Len(p.free) + 1}

PoolGet(p, b) ==
  [inUse |-> b,
   free |-> IF b <= Len(p.free) THEN [p.free EXCEPT ![b] = @ - 1]
            ELSE Append(p.free, 0)]

PoolPut(p, b) == [p EXCEPT !.free[b] = @ + 1]

PoolReset_release(p) ==
  IF p.inUse = 0 THEN p ELSE [inUse |-> 0, free |-> [p.free EXCEPT ![p.inUse] = @ + 1]]

PoolReset(p) == [p EXCEPT !.inUse = 0]

eventFor(ms, p) == [msgs |-> ms, buffer |-> p.inUse]

\* Event.Done on Event e
Done(e, p) == IF e.buffer # 0 THEN PoolPut(p, e.buffer) ELSE p

VARIABLES
  newState,      \* NewConsumer: "calling", "waiting", "ok" (returned c),
                 \* "failed" (returned the error)
  wpc,           \* position of the worker goroutine
  wkind,         \* task the worker runs: "none", "new", "events", "dump"
  cur,           \* output channel of the running task (0: none)
  c_socket,      \* Consumer.socket (0: nil)
  c_conn,        \* Consumer.conn, named by the socket it wraps (0: nil)
  samplingRate,  \* Consumer.samplingRate
  breakerOpen,   \* what Consumer.breaker.IsOpen() reports
  pool,          \* bufferPool: inUse (0: nil) and the sync.Pool it embeds,
                 \* free[b] = number of times buffer b is in the sync.Pool
  sockets,       \* every socket built so far
  out,           \* every output channel made so far, with its caller
  events,        \* every Event sent so far: its msgs and buffer, the batch
                 \* it was made from (raw), its channel, the Done() calls on it
  stops,         \* every Stop() invocation so far
  last,          \* the last Receive of the running task: its channel, what
                 \* it returned, whether the breaker then reported open, and
                 \* the state it was made in
  throttles,     \* result of every throttle() call so far
  offWorker,     \* socket operations performed off the worker goroutine
  scenario,      \* "traffic": the kernel delivers batches and errors;
                 \* "ladder": the kernel only signals buffer overflow or, to
                 \* a streaming loop, delivers a batch that trips the
                 \* breaker, as often as the Consumer asks
  nenv,          \* moves the environment has made so far
  cm             \* a message handed to checkMessage, what checkMessage
                 \* returned for it, and whether the loop of lines 280-286
                 \* drops a batch that holds it

workerVars == <<wpc, wkind, cur>>
consVars == <<c_socket, c_conn, samplingRate, breakerOpen>>
histVars == <<throttles, offWorker, scenario, nenv>>
vars == <<newState, workerVars, consVars, pool, sockets, out, events,
          stops, last, histVars, cm>>

NoReceive ==
  [ch |-> 0, res |-> [msgs |-> <<>>, err |-> ""], open |-> FALSE, n |-> 0,
   nsock |-> 0, sock |-> 0, rate |-> 0, nev |-> 0]

\* no message has been handed to checkMessage
Pending == [kind |-> "pending", errno |-> 0]

NoCheck == [m |-> Msg("Data", <<>>), err |-> Pending, drop |-> FALSE]

\* the state before NewConsumer's task has run
Start ==
  /\ newState = "calling"
  /\ wpc = "idle"
  /\ wkind = "none"
  /\ cur = 0
  /\ c_socket = 0
  /\ c_conn = 0
  /\ samplingRate = 0
  /\ breakerOpen = FALSE
  /\ pool = newBufferPool
  /\ sockets = <<>>
  /\ out = <<>>
  /\ events = <<>>
  /\ stops = <<>>
  /\ last = NoReceive
  /\ throttles = <<>>
  /\ offWorker = {}
  /\ scenario \in {"traffic", "ladder"}
  /\ nenv = 0

Init == Start /\ cm = NoCheck

\* ---- sockets and connections (netlink.Conn c wraps Socket c) ------------
NewSocket(r) == [closed |-> FALSE, rate |-> r, bpf |-> FALSE, joined |-> FALSE]

SocketClose(socks, s) == [socks EXCEPT ![s].closed = TRUE, ![s].joined = FALSE]

JoinGroup(socks, s) ==
  IF socks[s].closed THEN socks ELSE [socks EXCEPT ![s].joined = TRUE]

LeaveGroup(socks, s) ==
  IF socks[s].closed THEN socks ELSE [socks EXCEPT ![s].joined = FALSE]

SetBPF(socks, s) == [socks EXCEPT ![s].bpf = TRUE]

\* what Socket.Receive may return on socket s: msgs and the error's text
ReceiveResults(s) ==
  IF sockets[s].closed THEN {[msgs |-> <<>>, err |-> "closed file"]}
  ELSE IF scenario = "ladder"
  THEN {[msgs |-> <<>>, err |-> "no buffer space"]}
       \cup (IF wkind = "events" THEN {[msgs |-> <<DataMsg>>, err |-> ""]}
             ELSE {})
  ELSE IF nenv < MaxEnv
  THEN {[msgs |-> <<>>, err |-> "no buffer space"],
        [msgs |-> <<>>, err |-> "other"],
        [msgs |-> <<DataMsg>>, err |-> "other"]}
       \cup {[msgs |-> b, err |-> ""] : b \in Batches}
  ELSE {}

\* what breaker.IsOpen() may report after the Tick for a batch; the dump
\* loop does not ask; in the ladder scenario every batch trips the breaker
IsOpenResults(dump) ==
  IF dump THEN {breakerOpen}
  ELSE IF scenario = "ladder" THEN {TRUE}
  ELSE BOOLEAN

\* a Receive on a closed socket, and the overflows and batches of the ladder
\* scenario, are not counted as moves of the environment
EnvMove(r) == ~(r.err = "closed file" \/ scenario = "ladder")

\* a socket operation op performed by thread t
Touch(t, op) ==
  offWorker' = IF t = Worker THEN offWorker ELSE offWorker \cup {op}

Alive == wpc # "panic"

\* the positions of the worker inside receive()
LoopPcs == {"recv", "throttle", "reinit", "rejoin"}

\* ---- Consumer.initNetlinkSocket ----------------------------------------
\* the results of initNetlinkSocket: nil, the error of lines 186-188, of
\* NewSocket (lines 190-193), of SetBPF (lines 213-216); in the ladder
\* scenario the environment lets every socket be created and filtered
InitResults ==
  IF scenario = "ladder" THEN {"nil", "errMaxSamplingAttempts"}
  ELSE {"nil", "errMaxSamplingAttempts", "errNewSocket", "errSetBPF"}

initNetlinkSocket_storeFirst(rate, res) ==
  IF TooManyAttempts(rate)
  THEN /\ res = "errMaxSamplingAttempts"
       /\ samplingRate' = rate
       /\ UNCHANGED <<c_socket, c_conn, sockets>>
  ELSE \/ /\ res = "errNewSocket"
          /\ c_socket' = 0
          /\ UNCHANGED <<c_conn, samplingRate, sockets>>
       \/ /\ c_socket' = Len(sockets) + 1
          /\ c_conn' = Len(sockets) + 1
          /\ samplingRate' = rate
          /\ IF ~NeedsFilter(rate)
             THEN /\ res = "nil"
                  /\ sockets' = Append(sockets, NewSocket(rate))
             ELSE \/ /\ res = "nil"
                     /\ sockets' = SetBPF(Append(sockets, NewSocket(rate)),
                                          Len(sockets) + 1)
                  \/ /\ res = "errSetBPF"
                     /\ sockets' = Append(sockets, NewSocket(rate))

initNetlinkSocket(rate, res) ==
  IF TooManyAttempts(rate)
  THEN /\ res = "errMaxSamplingAttempts"
       /\ UNCHANGED <<c_socket, c_conn, samplingRate, sockets>>
  ELSE \/ /\ res = "errNewSocket"
          /\ c_socket' = 0
          /\ UNCHANGED <<c_conn, samplingRate, sockets>>
       \/ /\ c_socket' = Len(sockets) + 1
          /\ c_conn' = Len(sockets) + 1
          /\ samplingRate' = rate
          /\ IF ~NeedsFilter(rate)
             THEN /\ res = "nil"
                  /\ sockets' = Append(sockets, NewSocket(rate))
             ELSE \/ /\ res = "nil"
                     /\ sockets' = SetBPF(Append(sockets, NewSocket(rate)),
                                          Len(sockets) + 1)
                  \/ /\ res = "errSetBPF"
                     /\ sockets' = Append(sockets, NewSocket(rate))

\* ---- NewConsumer --------------------------------------------------------
\* the worker takes NewConsumer's syncFn off workQueue
TakeNew ==
  /\ wpc = "idle"
  /\ newState = "calling"
  /\ newState' = "waiting"
  /\ wpc' = "init"
  /\ wkind' = "new"
  /\ UNCHANGED <<cm, last, cur, consVars, pool, sockets, out, events, stops, histVars>>

\* syncFn: initNetlinkSocket(1.0), close(done); NewConsumer returns
RunNew ==
  /\ wpc = "init"
  /\ \E res \in InitResults :
       /\ initNetlinkSocket(fullRate, res)
       /\ newState' = IF res = "nil" THEN "ok" ELSE "failed"
  /\ Touch(Worker, "NewSocket")
  /\ wpc' = "idle"
  /\ wkind' = "none"
  /\ UNCHANGED <<cm, last, cur, breakerOpen, pool, out, events, stops, throttles,
                 scenario, nenv>>

\* ---- Events, DumpTable: the caller's side -------------------------------
\* caller: "send" (at c.workQueue <- fn) or "returned"
\* termRaw: a dump has received a batch whose last message is the done marker
\* termOk: ... and none of whose messages is an error message
\* againRaw, againOk: Receive was called again after that
\* termSent: the Event of such a batch was sent; extraSent: one was sent later
\* recv: the task has called Receive
\* clean: every Receive of the loop returned a batch free of error messages,
\* and no throttle intervened; recvd: the batches received, while clean
NewChan(k) ==
  [kind |-> k, caller |-> "send", buf |-> <<>>, closes |-> 0,
   finished |-> FALSE, req |-> "none", termRaw |-> FALSE, termOk |-> FALSE,
   againRaw |-> FALSE, againOk |-> FALSE, termSent |-> FALSE,
   extraSent |-> FALSE, recv |-> FALSE, clean |-> TRUE, recvd |-> <<>>]

\* Events() up to its send on workQueue
CallEvents ==
  /\ Alive
  /\ newState = "ok"
  /\ nenv < MaxEnv
  /\ nenv' = nenv + 1
  /\ out' = Append(out, NewChan("events"))
  /\ UNCHANGED <<cm, last, newState, workerVars, consVars, pool, sockets, events,
                 stops, throttles, offWorker, scenario>>

\* DumpTable() up to its send on workQueue
CallDumpTable ==
  /\ Alive
  /\ newState = "ok"
  /\ nenv < MaxEnv
  /\ nenv' = nenv + 1
  /\ out' = Append(out, NewChan("dump"))
  /\ UNCHANGED <<cm, last, newState, workerVars, consVars, pool, sockets, events,
                 stops, throttles, offWorker, scenario>>

\* workQueue is unbuffered: the send of call i completes when the worker
\* receives from it; the caller then returns its channel
Take(i) ==
  /\ wpc = "idle"
  /\ out[i].caller = "send"
  /\ out' = [out EXCEPT ![i].caller = "returned"]
  /\ wkind' = out[i].kind
  /\ cur' = i
  /\ wpc' = IF out[i].kind = "events" THEN "join" ELSE "dsend"
  /\ UNCHANGED <<cm, last, newState, consVars, pool, sockets, events, stops, histVars>>

\* ---- Events, DumpTable: the task the worker runs ------------------------
\* Events' task, line 107: c.conn.JoinGroup(netlinkCtNew)
EventsJoin ==
  /\ wpc = "join"
  /\ sockets' = JoinGroup(sockets, c_conn)
  /\ Touch(Worker, "JoinGroup")
  /\ wpc' = "recv"
  /\ UNCHANGED <<cm, last, newState, wkind, cur, consVars, pool, out, events, stops,
                 throttles, scenario, nenv>>

\* DumpTable's task, lines 120-137: c.conn.Send(req), netlink.Validate
DumpSend ==
  /\ wpc = "dsend"
  /\ \E ok \in (IF sockets[c_conn].closed THEN {FALSE} ELSE BOOLEAN) :
       /\ out' = [out EXCEPT ![cur].req = IF ok THEN "ok" ELSE "failed"]
       /\ wpc' = AfterSend(ok)
  /\ Touch(Worker, "Send")
  /\ UNCHANGED <<cm, last, newState, wkind, cur, consVars, pool, sockets, events,
                 stops, throttles, scenario, nenv>>

\* bookkeeping of a Receive by the loop that serves channel ch
NoteReceive(ch, r, dump, open) ==
  LET term == dump /\ r.err = "" /\ multiPartDoneOf(r.msgs)
      ok == ch.clean /\ r.err = "" /\ ~open /\ ~ContainsError(r.msgs)
  IN  [ch EXCEPT
         !.recv = TRUE,
         !.clean = ok,
         !.recvd = IF ok THEN Append(@, r.msgs) ELSE <<>>,
         !.againRaw = @ \/ ch.termRaw,
         !.againOk = @ \/ ch.termOk,
         !.termRaw = @ \/ term,
         !.termOk = @ \/ (term /\ ~HasErrorMessage(r.msgs))]

\* bookkeeping of the send of Event id, made from batch b
NoteSend(ch, id, b, dump) ==
  [ch EXCEPT
     !.buf = Append(@, id),
     !.extraSent = @ \/ ch.termSent,
     !.termSent = @ \/ (dump /\ multiPartDoneOf(b))]

\* one iteration of receive(), lines 236-299: from pool.Reset() to the point
\* where it returns, calls throttle(), or starts the next iteration.  The
\* send on output blocks while the channel holds outputBuffer Events.
Receive ==
  /\ wpc = "recv"
  /\ IF c_socket = 0
     THEN \* c.socket is nil: Socket.Receive dereferences it
          /\ wpc' = "panic"
          /\ pool' = PoolReset(pool)
          /\ UNCHANGED <<breakerOpen, out, events, last, nenv>>
     ELSE \E r \in ReceiveResults(c_socket), b \in GetChoices(PoolReset(pool)) :
            LET dump == wkind = "dump"
                fatal == r.err # ""
                         /\ socketError(r.err) \in {"errEOF", "errENOBUF"}
                p == PoolGet(PoolReset(pool), b)
                e == eventFor(StripDone(r.msgs), p)
                id == Len(events) + 1
                made == [ch |-> cur, res |-> r, open |-> FALSE,
                         n |-> Len(throttles), nsock |-> Len(sockets),
                         sock |-> c_socket, rate |-> samplingRate,
                         nev |-> Len(events)]
            IN  /\ pool' = p
                /\ nenv' = IF EnvMove(r) THEN nenv + 1 ELSE nenv
                /\ IF fatal
                   THEN /\ wpc' = OnFatal(socketError(r.err), dump)
                        /\ out' = [out EXCEPT ![cur] =
                                     NoteReceive(@, r, dump, FALSE)]
                        /\ last' = made
                        /\ UNCHANGED <<breakerOpen, events>>
                   ELSE \E open \in IsOpenResults(dump) :
                          \* breaker.Tick(len(msgs)); breaker.IsOpen()
                          LET ch == NoteReceive(out[cur], r, dump,
                                                ~dump /\ open)
                          IN
                          /\ breakerOpen' = open
                          /\ last' = [made EXCEPT !.open = ~dump /\ open]
                          /\ IF Tripped(dump, open)
                             THEN /\ wpc' = "throttle"
                                  /\ out' = [out EXCEPT ![cur] = ch]
                                  /\ UNCHANGED events
                             ELSE IF AfterBatch(dump, r.msgs) = "drop"
                             THEN /\ wpc' = "recv"
                                  /\ out' = [out EXCEPT ![cur] = ch]
                                  /\ UNCHANGED events
                             ELSE \* output <- c.eventFor(msgs)
                                  /\ Len(out[cur].buf) < outputBuffer
                                  /\ events' = Append(events,
                                       [msgs |-> e.msgs, buffer |-> e.buffer,
                                        raw |-> r.msgs, ch |-> cur,
                                        dones |-> 0])
                                  /\ out' = [out EXCEPT ![cur] =
                                               NoteSend(ch, id, r.msgs, dump)]
                                  /\ wpc' = IF AfterBatch(dump, r.msgs)
                                              = "last"
                                            THEN "ret" ELSE "recv"
  /\ Touch(Worker, "Receive")
  /\ UNCHANGED <<cm, newState, wkind, cur, c_socket, c_conn, samplingRate,
                 sockets, stops, throttles, scenario>>

\* the task returns; DumpTable's deferred close(output) runs
TaskReturn ==
  /\ wpc = "ret"
  /\ out' = [out EXCEPT
               ![cur].finished = TRUE,
               ![cur].closes = IF wkind = "dump" THEN @ + 1 ELSE @]
  /\ wpc' = "idle"
  /\ wkind' = "none"
  /\ cur' = 0
  /\ last' = NoReceive
  /\ UNCHANGED <<cm, newState, consVars, pool, sockets, events, stops,
                 histVars>>

\* ---- Consumer.throttle --------------------------------------------------
\* lines 316-321: c.conn.LeaveGroup(netlinkCtNew), c.socket.Close()
ThrottleClose_noClose ==
  /\ wpc = "throttle"
  /\ sockets' = LeaveGroup(sockets, c_conn)
  /\ Touch(Worker, "LeaveGroup")
  /\ wpc' = "reinit"
  /\ UNCHANGED <<cm, last, newState, wkind, cur, consVars, pool, out, events, stops,
                 throttles, scenario, nenv>>

ThrottleClose ==
  /\ wpc = "throttle"
  /\ sockets' = SocketClose(LeaveGroup(sockets, c_conn), c_socket)
  /\ Touch(Worker, "Close")
  /\ wpc' = "reinit"
  /\ UNCHANGED <<cm, last, newState, wkind, cur, consVars, pool, out, events, stops,
                 throttles, scenario, nenv>>

\* lines 322-326: c.initNetlinkSocket(c.samplingRate * throttlingFactor);
\* an error is returned to receive(), which ends the loop
ThrottleInit ==
  /\ wpc = "reinit"
  /\ \E res \in InitResults :
       /\ initNetlinkSocket(Throttled(samplingRate), res)
       /\ throttles' = Append(throttles, res)
       /\ wpc' = AfterThrottle(res)
  /\ Touch(Worker, "NewSocket")
  /\ UNCHANGED <<cm, last, newState, wkind, cur, breakerOpen, pool, out, events,
                 stops, scenario, nenv>>

\* lines 328-333: c.breaker.Reset(), c.conn.JoinGroup(netlinkCtNew); throttle
\* returns nil and the loop goes on to its next Receive
ThrottleRejoin_noReset ==
  /\ wpc = "rejoin"
  /\ sockets' = JoinGroup(sockets, c_conn)
  /\ Touch(Worker, "JoinGroup")
  /\ wpc' = "recv"
  /\ UNCHANGED <<cm, last, newState, wkind, cur, c_socket, c_conn, samplingRate,
                 breakerOpen, pool, out, events, stops, throttles, scenario,
                 nenv>>

ThrottleRejoin ==
  /\ wpc = "rejoin"
  /\ breakerOpen' = FALSE
  /\ sockets' = JoinGroup(sockets, c_conn)
  /\ Touch(Worker, "JoinGroup")
  /\ wpc' = "recv"
  /\ UNCHANGED <<cm, last, newState, wkind, cur, c_socket, c_conn, samplingRate,
                 pool, out, events, stops, throttles, scenario, nenv>>

\* ---- Consumer.Stop ------------------------------------------------------
\* Stop() evaluates c.conn on the caller's goroutine
StopRead ==
  /\ Alive
  /\ newState = "ok"
  /\ nenv < MaxEnv
  /\ nenv' = nenv + 1
  /\ stops' = Append(stops, [pc |-> "close", conn |-> c_conn,
                             loop |-> IF wpc \in LoopPcs THEN cur ELSE 0])
  /\ Touch(Caller, "read c.conn")
  /\ UNCHANGED <<cm, last, newState, workerVars, consVars, pool, sockets, out, events,
                 throttles, scenario>>

\* ... and calls Close() on the connection it read
StopClose(i) ==
  /\ Alive
  /\ stops[i].pc = "close"
  /\ sockets' = SocketClose(sockets, stops[i].conn)
  /\ stops' = [stops EXCEPT ![i].pc = "done", ![i].conn = 0]
  /\ Touch(Caller, "Close")
  /\ UNCHANGED <<cm, last, newState, workerVars, consVars, pool, out, events,
                 throttles, scenario, nenv>>

\* ---- the reader of the output channels ---------------------------------
\* the reader receives the next Event of channel i and calls Done() on it
Consume(i) ==
  /\ Alive
  /\ Len(out[i].buf) > 0
  /\ LET e == Head(out[i].buf)
     IN  /\ pool' = Done(events[e], pool)
         /\ events' = [events EXCEPT ![e].dones = @ + 1]
  /\ out' = [out EXCEPT ![i].buf = Tail(@)]
  /\ UNCHANGED <<cm, last, newState, workerVars, consVars, sockets, stops, histVars>>

\* the reader calls Done() again on an Event it has released
DoneAgain(e) ==
  /\ Alive
  /\ events[e].dones > 0
  /\ nenv < MaxEnv
  /\ nenv' = nenv + 1
  /\ pool' = Done(events[e], pool)
  /\ events' = [events EXCEPT ![e].dones = @ + 1]
  /\ UNCHANGED <<cm, last, newState, workerVars, consVars, sockets, out, stops,
                 throttles, offWorker, scenario>>

Next ==
  \/ TakeNew
  \/ RunNew
  \/ CallEvents
  \/ CallDumpTable
  \/ \E i \in 1..Len(out) : Take(i)
  \/ EventsJoin
  \/ DumpSend
  \/ Receive
  \/ TaskReturn
  \/ ThrottleClose
  \/ ThrottleInit
  \/ ThrottleRejoin
  \/ StopRead
  \/ \E i \in 1..Len(stops) : StopClose(i)
  \/ \E i \in 1..Len(out) : Consume(i)
  \/ \E e \in 1..Len(events) : DoneAgain(e)

Spec == Init /\ [][Next]_vars

\* ---- checkMessage on its own ----------------------------------------------
\* messages of every type with every payload of up to MaxPayload bytes
MaxPayload == 5

Bytes == {0, 1, 255}

Types == {"Data", "Done", "Error", "Noop"}

Payloads == UNION {[1..n -> Bytes] : n \in 0..MaxPayload}

Messages == {Msg(t, d) : t \in Types, d \in Payloads}

InitCheckMessage ==
  /\ Start
  /\ cm \in {[m |-> x, err |-> Pending, drop |-> FALSE] : x \in Messages}

\* checkMessage(m), and the loop of lines 280-286 on a batch that holds m
CheckOne ==
  /\ cm.err = Pending
  /\ cm' = [cm EXCEPT !.err = checkMessage(cm.m),
                      !.drop = HasErrorMessage(<<DataMsg, cm.m>>)]
  /\ UNCHANGED <<newState, workerVars, consVars, pool, sockets, out, events,
                 stops, last, histVars>>

NextCheckMessage == CheckOne

SpecCheckMessage == InitCheckMessage /\ [][NextCheckMessage]_vars

\* ---- properties ---------------------------------------------------------
Chans == 1..Len(out)
Events == 1..Len(events)
Buffers == 1..Len(pool.free)

\* C1: when the receive loop started by Events() has ended, the channel that
\* Events() returned is closed.
C1_EventsChannelClosed ==
  \A i \in Chans :
    (out[i].kind = "events" /\ out[i].finished) => out[i].closes > 0

\* C2: once a Stop() called while the worker runs a receive loop has
\* returned, the next Receive of that loop is made on a closed socket (and
\* so reports end-of-stream), whatever the interleaving with throttle().
C2_StopEndsLoop ==
  \A i \in 1..Len(stops) :
    (stops[i].pc = "done" /\ stops[i].loop # 0 /\ cur = stops[i].loop
       /\ wpc = "recv")
    => (c_socket # 0 /\ sockets[c_socket].closed)

\* the rates 0.8, 0.64, 0.512, 0.4096, 0.32768, 0.262144, 0.2097152
RateLadder ==
  <<80000000, 64000000, 51200000, 40960000, 32768000, 26214400, 20971520>>

NoBuildFailure ==
  \A k \in 1..Len(throttles) : throttles[k] \in {"nil", "errMaxSamplingAttempts"}

\* C3: as long as socket creation and filter attachment succeed, the first 7
\* throttle calls succeed and build sockets at the rates of RateLadder, in
\* that order, and the 8th throttle call fails with errMaxSamplingAttempts.
C3_ThrottleLadder ==
  NoBuildFailure =>
    /\ Len(throttles) <= 8
    /\ \A k \in 1..Len(throttles) :
         IF k <= 7
         THEN /\ throttles[k] = "nil"
              /\ Len(sockets) >= k + 1
              /\ sockets[k + 1].rate = RateLadder[k]
         ELSE /\ throttles[k] = "errMaxSamplingAttempts"
              /\ Len(sockets) = 8

C3_Witness ==
  /\ NoBuildFailure
  /\ Len(throttles) = 8
  /\ throttles[8] = "errMaxSamplingAttempts"
  /\ samplingRate = RateLadder[7]

\* C4: no Event sent on an output channel contains a message whose type is
\* the multi-part done marker.
C4_NoDoneMarker ==
  \A e \in Events :
    \A k \in 1..Len(events[e].msgs) : events[e].msgs[k].Type # "Done"

LastEventOf(i) ==
  CHOOSE e \in Events :
    events[e].ch = i /\ \A f \in Events : events[f].ch = i => f <= e

TerminalEventLast(i) ==
  LET ev == events[LastEventOf(i)]
  IN  /\ multiPartDoneOf(ev.raw)
      /\ ev.msgs = SubSeq(ev.raw, 1, Len(ev.raw) - 1)

\* C5 as stated: the channel of a DumpTable call is closed once, when its
\* task ends; once the dump loop has received a batch whose last message is
\* the done marker, the Event of that batch, without the marker, is sent
\* before the close, no Event is sent after it, and the dump does not call
\* Receive again.
C5_DumpTerminal_AsStated ==
  \A i \in Chans :
    out[i].kind = "dump" =>
      /\ out[i].closes = (IF out[i].finished THEN 1 ELSE 0)
      /\ ~out[i].againRaw
      /\ ~out[i].extraSent
      /\ out[i].termSent => TerminalEventLast(i)
      /\ (out[i].termRaw /\ out[i].closes > 0) => out[i].termSent

\* C5: the channel of a DumpTable call is closed once, when its task ends;
\* once the dump loop has received a batch whose last message is the done
\* marker and none of whose messages is an error message, the Event of that
\* batch, without the marker, is sent before the close, no Event is sent
\* after it, and the dump does not call Receive again.
C5_DumpTerminal ==
  \A i \in Chans :
    out[i].kind = "dump" =>
      /\ out[i].closes = (IF out[i].finished THEN 1 ELSE 0)
      /\ ~out[i].againOk
      /\ ~out[i].extraSent
      /\ out[i].termSent => TerminalEventLast(i)
      /\ (out[i].termOk /\ out[i].closes > 0) => out[i].termSent

C5_Witness ==
  \E i \in Chans :
    /\ out[i].kind = "dump"
    /\ out[i].termOk
    /\ out[i].termSent
    /\ out[i].closes = 1
    /\ \E e \in Events : events[e].ch = i /\ e # LastEventOf(i)

\* C6: a second Done() on a released Event does not add its buffer to the
\* pool again: no buffer is in the free list twice.
C6_DoneIdempotent ==
  \A b \in Buffers : pool.free[b] <= 1

Unreleased(e) == events[e].dones = 0

ReleasedAtMostOnce == \A e \in Events : events[e].dones <= 1

\* C7: provided Done() is called at most once on each Event, no buffer that
\* Get() has lent is lost: it is back in the pool, or the one lent to the
\* iteration in progress, or held by an Event that is still to be released.
C7_NoBufferLost ==
  ReleasedAtMostOnce =>
    \A b \in Buffers :
      \/ pool.free[b] > 0
      \/ pool.inUse = b
      \/ \E e \in Events : Unreleased(e) /\ events[e].buffer = b

\* C8: provided each Event is released at most once, no two Events that were
\* sent and are not yet released reference the same buffer, and the buffer
\* of such an Event is not in the pool's free list.
C8_LiveEventsOwnBuffers ==
  ReleasedAtMostOnce =>
    \A e \in Events :
      (Unreleased(e) /\ events[e].buffer # 0) =>
        /\ pool.free[events[e].buffer] = 0
        /\ \A f \in Events :
             (f # e /\ Unreleased(f)) => events[f].buffer # events[e].buffer

C8_Witness ==
  /\ ReleasedAtMostOnce
  /\ \E e, f, g \in Events :
       /\ ~Unreleased(e) /\ Unreleased(f) /\ Unreleased(g)
       /\ events[f].buffer = events[e].buffer
       /\ events[g].buffer # events[f].buffer

\* C9: a caller of Events() or DumpTable() is never held at its send on
\* workQueue while the worker is busy with the task of an earlier call.
C9_CallsDoNotBlock ==
  \A i \in Chans : out[i].caller = "send" => wkind \notin {"events", "dump"}

\* C10: every operation on the socket or the connection, and every read of
\* the Consumer's socket and connection fields, is made by the worker.
C10_SocketOpsOnWorker == offWorker = {}

\* ---- the worker's end ----------------------------------------------------
\* initWorker leaves its loop only on a closed workQueue (lines 155-158); no
\* statement of the Consumer closes workQueue: Stop (lines 145-147) closes
\* the connection and nothing else
workQueueClosed == FALSE

StopReturned == \E i \in 1..Len(stops) : stops[i].pc = "done"

\* C11: after Stop() has returned and the running task (if any) has
\* returned, the worker does not stay in its task-queue loop waiting for a
\* next task: the queue is closed to it and its goroutine ends.
C11_WorkerEnds ==
  (/\ StopReturned
   /\ wpc = "idle"
   /\ wkind = "none"
   /\ \A i \in Chans : out[i].caller # "send")
    => workQueueClosed

\* ---- order of delivery ---------------------------------------------------
\* the Events sent on channel i, in the order they were sent
EventsOf(i) ==
  SelectSeq([e \in 1..Len(events) |-> e], LAMBDA e : events[e].ch = i)

\* a batch less its trailing done marker
WithoutTrailingDone(b) ==
  IF Len(b) > 0 /\ b[Len(b)].Type = "Done" THEN SubSeq(b, 1, Len(b) - 1) ELSE b

\* C12: on one output channel, while no error and no throttle has
\* intervened, the N batches received have given exactly N Events, the k-th
\* Event carrying the messages of the k-th batch (less its trailing done
\* marker), and the channel hands them over in that order: the Events still
\* queued are the last ones sent, in the order sent.
C12_EventsInOrder ==
  \A i \in Chans :
    out[i].clean =>
      LET evs == EventsOf(i)
          q == out[i].buf
          d == Len(evs) - Len(q)
      IN  /\ Len(evs) = Len(out[i].recvd)
          /\ \A k \in 1..Len(evs) :
               events[evs[k]].msgs = WithoutTrailingDone(out[i].recvd[k])
          /\ d >= 0
          /\ \A k \in 1..Len(q) : q[k] = evs[d + k]
          /\ \A k \in 1..d : events[evs[k]].dones > 0

C12_Witness ==
  \E i \in Chans :
    /\ out[i].clean
    /\ Len(out[i].recvd) >= 3
    /\ out[i].recvd[1] # out[i].recvd[2]
    /\ \E k \in 1..Len(out[i].recvd) : multiPartDoneOf(out[i].recvd[k])
    /\ Len(out[i].buf) = 2

\* ---- the iteration in progress -------------------------------------------
\* the running loop has made a Receive, recorded in last
InIteration == last.ch # 0 /\ last.ch = cur

\* a throttle has failed because the reduced rate was at or under the
\* threshold
Exhausted ==
  \E k \in 1..Len(throttles) : throttles[k] = "errMaxSamplingAttempts"

\* C13: in streaming mode, when the breaker reports open after the Tick for
\* a received batch, throttle is invoked exactly once before the loop's next
\* Receive; if it succeeds the next Receive is made on the socket it built,
\* with the breaker reset; if it fails the loop makes no further Receive.
C13_BreakerThrottle ==
  (InIteration /\ last.open) =>
    /\ wkind = "events"
    /\ wpc \in {"throttle", "reinit", "rejoin", "recv", "ret"}
    /\ wpc \in {"throttle", "reinit"} => Len(throttles) = last.n
    /\ wpc \in {"rejoin", "recv"} =>
         /\ Len(throttles) = last.n + 1
         /\ throttles[last.n + 1] = "nil"
         /\ Len(sockets) = last.nsock + 1
         /\ c_socket = Len(sockets)
         /\ c_conn = c_socket
    /\ wpc = "recv" => ~breakerOpen
    /\ wpc = "ret" =>
         /\ Len(throttles) = last.n + 1
         /\ throttles[last.n + 1] # "nil"

C13_Witness ==
  /\ InIteration
  /\ last.open
  /\ wpc = "recv"
  /\ ~sockets[c_socket].closed

\* C14: once a throttle has failed because the reduced rate is at or under
\* 0.2, the receive loop returns and the Consumer never builds another
\* socket, whatever Events(), DumpTable() and Stop() calls follow.
C14_ExhaustionTerminal ==
  [][/\ (~Exhausted /\ Exhausted') => wpc' = "ret"
     /\ Exhausted => (Len(sockets') = Len(sockets) /\ c_socket' = c_socket)
    ]_vars

C14_Witness ==
  /\ Exhausted
  /\ StopReturned
  /\ \E i \in Chans : i > 1 /\ out[i].kind = "events" /\ out[i].finished
  /\ \E i \in Chans : out[i].kind = "dump" /\ out[i].finished

\* ---- sockets --------------------------------------------------------------
OpenSockets == {k \in 1..Len(sockets) : ~sockets[k].closed}

ThrottleInProgress == wpc \in {"throttle", "reinit", "rejoin"}

\* a throttle has failed because the new socket could not be created
CreationFailed == \E k \in 1..Len(throttles) : throttles[k] = "errNewSocket"

\* C15, as stated: never two open sockets built by the Consumer; and from
\* NewConsumer's success until Stop() or exhaustion, outside a throttle in
\* progress, exactly one open socket.
C15_OneSocket_AsStated ==
  /\ Cardinality(OpenSockets) <= 1
  /\ (newState = "ok" /\ stops = <<>> /\ ~Exhausted /\ ~ThrottleInProgress)
       => Cardinality(OpenSockets) = 1

\* C15: never two open sockets built by the Consumer; and from NewConsumer's
\* success until Stop(), exhaustion or a throttle that failed to create its
\* socket, outside a throttle in progress, exactly one open socket: the
\* Consumer's current one.
C15_OneSocket ==
  /\ Cardinality(OpenSockets) <= 1
  /\ (/\ newState = "ok"
      /\ stops = <<>>
      /\ ~Exhausted
      /\ ~CreationFailed
      /\ ~ThrottleInProgress)
       => OpenSockets = {c_socket}

C15_Witness ==
  /\ newState = "ok"
  /\ stops = <<>>
  /\ Len(sockets) >= 3
  /\ wpc = "recv"
  /\ OpenSockets = {Len(sockets)}

\* the results of the throttles that built a socket, in order: the k-th
\* built socket k + 1
Builds == SelectSeq(throttles, LAMBDA r : r \in {"nil", "errSetBPF"})

\* C16: a socket has a sampling filter only if it was built with a rate
\* below 1.0; the socket NewConsumer builds (rate 1.0) never has one; every
\* socket built by a successful throttle has one from the moment it is the
\* Consumer's socket, so before any Receive on it.
C16_FilterIffSampled ==
  /\ sockets # <<>> => Len(sockets) = 1 + Len(Builds)
  /\ \A k \in 1..Len(sockets) :
       /\ sockets[k].bpf => sockets[k].rate < fullRate
       /\ k = 1 => (sockets[k].rate = fullRate /\ ~sockets[k].bpf)
       /\ (k > 1 /\ Builds[k - 1] = "nil") =>
            (sockets[k].rate < fullRate /\ sockets[k].bpf)

C16_Witness ==
  /\ InIteration
  /\ last.sock = 2
  /\ last.res.err = ""
  /\ sockets[2].bpf
  /\ ~sockets[1].bpf

\* ---- overflow --------------------------------------------------------------
\* the last Receive of the running loop reported a buffer overflow
Overflowed == InIteration /\ last.res.err = "no buffer space"

\* C17: after a Receive that reports buffer overflow no Event is emitted for
\* the iteration; a dump loop returns at once, without a throttle, the
\* socket and the sampling rate being the ones it had; a streaming loop
\* invokes throttle, goes on to a new Receive if it succeeded and returns if
\* it failed.
C17_Overflow ==
  Overflowed =>
    /\ Len(events) = last.nev
    /\ wkind = "dump" =>
         /\ wpc = "ret"
         /\ Len(throttles) = last.n
         /\ Len(sockets) = last.nsock
         /\ c_socket = last.sock
         /\ c_conn = last.sock
         /\ samplingRate = last.rate
    /\ wkind = "events" =>
         /\ wpc \in {"throttle", "reinit", "rejoin", "recv", "ret"}
         /\ wpc \in {"throttle", "reinit"} => Len(throttles) = last.n
         /\ wpc \in {"rejoin", "recv"} =>
              /\ Len(throttles) = last.n + 1
              /\ throttles[last.n + 1] = "nil"
         /\ wpc = "ret" =>
              /\ Len(throttles) = last.n + 1
              /\ throttles[last.n + 1] # "nil"

C17_Witness ==
  /\ Overflowed
  /\ wkind = "dump"
  /\ wpc = "ret"
  /\ ~sockets[c_socket].closed

\* ---- the throttle protocol --------------------------------------------------
\* C18: throttle leaves the group on the old connection and closes the old
\* socket before it builds the new one at 0.8 times the current rate; only
\* after a successful build does it reset the breaker and join the group on
\* the new connection; when it returns to the loop the stored rate is 0.8
\* times the previous one, the breaker is reset and the new socket has
\* joined the group.
C18_ThrottleProtocol ==
  /\ [](InIteration =>
         /\ wpc = "reinit" =>
              /\ sockets[last.sock].closed
              /\ ~sockets[last.sock].joined
              /\ Len(sockets) = last.nsock
              /\ samplingRate = last.rate
         /\ wpc = "rejoin" =>
              /\ sockets[last.sock].closed
              /\ Len(sockets) = last.nsock + 1
              /\ c_conn = Len(sockets)
              /\ sockets[c_conn].rate = Throttled(last.rate)
              /\ samplingRate = Throttled(last.rate))
  /\ [][(wpc = "rejoin" /\ wpc' = "recv") =>
          /\ samplingRate' = Throttled(last.rate)
          /\ ~breakerOpen'
          /\ sockets'[c_conn'].joined]_vars

\* ---- error messages ---------------------------------------------------------
\* the last Receive of the running loop returned a batch holding an error
\* message
ErrorBatch == InIteration /\ last.res.err = "" /\ ContainsError(last.res.msgs)

\* C19, as stated: no Event is emitted for a batch holding an error message,
\* and the loop does not return: it goes on to its next Receive.
C19_ErrorBatchDropped_AsStated ==
  ErrorBatch => (Len(events) = last.nev /\ wpc # "ret")

\* C19: no Event is emitted for a batch holding an error message, in
\* streaming and in dump mode; unless the breaker reported open on that
\* batch the loop goes straight on to its next Receive; if it did, throttle
\* runs first and the loop returns only if the throttle failed.
C19_ErrorBatchDropped ==
  ErrorBatch =>
    /\ Len(events) = last.nev
    /\ ~last.open => (wpc = "recv" /\ Len(throttles) = last.n)
    /\ wpc = "ret" =>
         /\ last.open
         /\ Len(throttles) = last.n + 1
         /\ throttles[last.n + 1] # "nil"

C19_Witness ==
  /\ ErrorBatch
  /\ wkind = "dump"
  /\ last.res.msgs = <<DataMsg, ShortMsg>>
  /\ wpc = "recv"

\* ---- a dump that cannot start ------------------------------------------------
\* C20: when sending the dump request fails, or the reply fails validation,
\* the task makes no Receive for that dump, sends no Event on its channel,
\* and returns, which closes the channel.
C20_FailedDumpNoLoop ==
  \A i \in Chans :
    (out[i].kind = "dump" /\ out[i].req = "failed") =>
      /\ ~out[i].recv
      /\ EventsOf(i) = <<>>
      /\ out[i].buf = <<>>
      /\ IF cur = i THEN wpc = "ret" /\ out[i].closes = 0
         ELSE out[i].finished /\ out[i].closes = 1

C20_Witness ==
  \E i \in Chans :
    /\ out[i].kind = "dump"
    /\ out[i].req = "failed"
    /\ out[i].finished
    /\ out[i].closes = 1
    /\ ~sockets[c_conn].closed

\* ---- classification of one message ---------------------------------------
\* the first four payload bytes are all zero
ZeroCode(d) == \A k \in 1..4 : d[k] = 0

\* C21: for every message, checkMessage gives no error when the type is not
\* Error, whatever the payload; the short-message error, distinct from every
\* other result, when the type is Error and the payload has fewer than 4
\* bytes; no error when the type is Error and the first 4 bytes decode to 0,
\* and a batch holding such a message is not dropped; the error number -c
\* when the type is Error and the first 4 bytes decode to c # 0.
C21_CheckMessage ==
  cm.err # Pending =>
    LET m == cm.m
        d == m.Data
    IN  /\ m.Type # "Error" => (cm.err = NoError /\ ~cm.drop)
        /\ (m.Type = "Error" /\ Len(d) < 4) =>
             /\ cm.err.kind = "errShortErrorMessage"
             /\ cm.err # NoError
             /\ cm.drop
        /\ (m.Type = "Error" /\ Len(d) >= 4 /\ ZeroCode(d)) =>
             (cm.err = NoError /\ ~cm.drop)
        /\ (m.Type = "Error" /\ Len(d) >= 4 /\ ~ZeroCode(d)) =>
             /\ cm.err.kind = "errno"
             /\ cm.err.errno = 0 - Int32(SubSeq(d, 1, 4))
             /\ cm.err.errno # 0
             /\ cm.drop

C21_Witness ==
  /\ cm.m.Type = "Error"
  /\ Len(cm.m.Data) = 5
  /\ cm.err.kind = "errno"
  /\ cm.err.errno = 1

\* ---- the stored sampling rate ----------------------------------------------
\* 0.8^k, for k in 0..7
PowerOfFactor(k) == IF k = 0 THEN fullRate ELSE RateLadder[k]

\* C22: once NewConsumer has succeeded the stored sampling rate is above 0.2
\* and at most 1.0, is 0.8^k for some k in 0..7, and no step raises it.
C22_RateInvariant ==
  /\ [](newState = "ok" =>
         /\ 5 * samplingRate > fullRate
         /\ samplingRate <= fullRate
         /\ \E k \in 0..7 : samplingRate = PowerOfFactor(k))
  /\ [][newState = "ok" => samplingRate' <= samplingRate]_vars

C22_Witness ==
  /\ newState = "ok"
  /\ samplingRate = PowerOfFactor(7)
  /\ Exhausted
  /\ wpc = "idle"

\* the step in which a throttle fails on the rate threshold
ExhaustingStep ==
  /\ Len(throttles') = Len(throttles) + 1
  /\ throttles'[Len(throttles')] = "errMaxSamplingAttempts"

\* C23: the throttle step that fails because the reduced rate is at or under
\* 0.2 leaves the stored rate, the breaker, the sockets and the Consumer's
\* socket and connection fields as they were: no socket is created, no
\* group joined, and the socket field refers to the previous socket, which
\* is closed; so it is when the loop returns.
C23_ExhaustionFrame ==
  /\ [][ExhaustingStep =>
          /\ samplingRate' = samplingRate
          /\ breakerOpen' = breakerOpen
          /\ sockets' = sockets
          /\ c_socket' = c_socket
          /\ c_conn' = c_conn
          /\ sockets[c_socket].closed
          /\ ~sockets[c_socket].joined]_vars
  /\ []((/\ InIteration
         /\ wpc = "ret"
         /\ Len(throttles) = last.n + 1
         /\ throttles[last.n + 1] = "errMaxSamplingAttempts") =>
          /\ samplingRate = last.rate
          /\ last.open => breakerOpen
          /\ Len(sockets) = last.nsock
          /\ c_socket = last.sock
          /\ c_conn = last.sock
          /\ sockets[c_socket].closed
          /\ ~sockets[c_socket].joined)

C23_Witness ==
  /\ InIteration
  /\ wpc = "ret"
  /\ Exhausted
  /\ last.open
  /\ breakerOpen
  /\ samplingRate = PowerOfFactor(7)

\* ---- a Receive error of no known class --------------------------------------
\* the last Receive of the running loop returned an error that socketError
\* classifies neither as end-of-stream nor as buffer overflow
OtherError ==
  /\ InIteration
  /\ last.res.err \notin {"", "closed file", "no buffer space"}

\* C24: such an error does not end the loop and does not by itself cause a
\* throttle; the iteration goes on as after a successful read with the
\* messages Receive returned: when the breaker reported open (streaming
\* mode only) the loop is in its throttle; otherwise, when a message carries
\* an error, no Event is sent and the loop is at its next Receive;
\* otherwise one Event with those messages, possibly none, has been sent on
\* the loop's channel and the loop is at its next Receive.
C24_OtherErrorGoesOn ==
  OtherError =>
    IF last.open
    THEN /\ wkind = "events"
         /\ Len(events) = last.nev
         /\ wpc \in {"throttle", "reinit", "rejoin", "recv", "ret"}
         /\ wpc = "ret" =>
              (Len(throttles) = last.n + 1 /\ throttles[last.n + 1] # "nil")
    ELSE /\ Len(throttles) = last.n
         /\ wpc = "recv"
         /\ IF ContainsError(last.res.msgs)
            THEN Len(events) = last.nev
            ELSE /\ Len(events) = last.nev + 1
                 /\ events[Len(events)].ch = cur
                 /\ events[Len(events)].msgs = last.res.msgs

C24_Witness ==
  /\ OtherError
  /\ wkind = "events"
  /\ ~last.open
  /\ wpc = "recv"
  /\ Len(events) = 2
  /\ events[1].msgs = <<>>
  /\ events[2].msgs = <<DataMsg>>

\* ---- a batch that trips the breaker -----------------------------------------
\* C25: in streaming mode a batch after whose Tick the breaker reports open
\* is never emitted: every Event sent is the Event of the batch received in
\* the same iteration, on which the breaker did not report open; and from
\* the Receive of a batch that tripped the breaker to the loop's next
\* Receive or its return, through a throttle that succeeds or fails, no
\* Event is sent.
C25_TrippedBatchNotEmitted ==
  /\ []((InIteration /\ last.open) => Len(events) = last.nev)
  /\ [][Len(events') > Len(events) =>
          /\ ~last'.open
          /\ last'.nev = Len(events)
          /\ Len(events') = Len(events) + 1
          /\ events'[Len(events')].raw = last'.res.msgs
          /\ events'[Len(events')].ch = last'.ch]_vars

C25_Witness ==
  /\ InIteration
  /\ last.open
  /\ last.res.msgs = <<DataMsg, DoneMsg>>
  /\ wpc = "ret"
  /\ Len(events) = 1

\* ---- an error message and a done marker in one dump batch -------------------
\* the last Receive of the running dump loop returned a batch that holds an
\* error message and ends with the done marker
ErrorAndDone ==
  /\ ErrorBatch
  /\ wkind = "dump"
  /\ last.res.msgs[Len(last.res.msgs)].Type = "Done"

\* C26: such a batch does not end the dump: no Event is sent for it, the
\* task does not return, so the channel is not closed, and the loop is at
\* its next Receive.
C26_ErrorBeforeDone ==
  ErrorAndDone =>
    /\ Len(events) = last.nev
    /\ wpc = "recv"
    /\ ~out[cur].finished
    /\ out[cur].closes = 0
    /\ Len(throttles) = last.n

C26_Witness ==
  /\ ErrorAndDone
  /\ last.res.msgs = <<ErrMsg, DoneMsg>>
  /\ wpc = "recv"
  /\ out[cur].closes = 0
  /\ ~sockets[c_socket].closed

====
